---- MODULE Spec2Model ----
(***************************************************************************)
(* arraycollect: collecting an iterator into a fixed-size array [T; N].    *)
(*                                                                         *)
(* Two builders are modelled, each running one collect call on its own     *)
(* copy of the same producer:                                              *)
(*   "m"  the arraycollect! macro (PartialArray with a Drop impl),         *)
(*        src/src/lib.rs                                                   *)
(*   "g"  FromIter::from_iter for [T; N] (ScopeExitGuard),                 *)
(*        src/src/array.rs                                                 *)
(* An element is identified by its production index (id), so that every    *)
(* destruction can be attributed to one logical element.                   *)
(***************************************************************************)
EXTENDS Integers, Sequences, FiniteSets, TLC

\* ---------------------------------------------------------------- bounds
MaxN == 3          \* largest array capacity explored
MaxLen == 3        \* longest finite prefix of the producer
NumVals == 2       \* number of distinct element values

Vals == 0 .. (NumVals - 1)
Procs == {"m", "g"}
Tails == {"None", "Panic", "More"}

VARIABLES
    N,          \* the array's capacity ($size / const N)
    items,      \* the values the producer yields first
    tail,       \* what the producer does after them: exhausted, panics, goes on
    pc,         \* each builder's position in its code
    asked,      \* calls of next() made on each builder's producer
    taken,      \* elements each producer has handed over
    cur,        \* the loop's (src, dst) pair
    zipB,       \* position of the slot iterator (data.iter_mut()) inside the zip
    pa,         \* macro: the PartialArray {data, filled}
    partial,    \* from_iter: the [MaybeUninit<T>; N] array
    guard,      \* from_iter: the ScopeExitGuard {value, data} and whether it is live
    result,     \* what the call gave its caller
    container,  \* the finished array in the caller's hands
    drops,      \* destructions so far, in order: <<[id, by]>>
    cleanups,   \* the lengths the cleanup finalizer ran with, in order
    touched     \* slot indices the cleanup finalizer treated as elements

vars == <<N, items, tail, pc, asked, taken, cur, zipB, pa, partial, guard,
          result, container, drops, cleanups, touched>>

\* ------------------------------------------------------------- elements
Elem(i, v) == [id |-> i, val |-> v]
NoElem == [id |-> 0, val |-> 0]

\* MaybeUninit::<T>::uninit(): a slot that holds no element
Uninit == [init |-> FALSE, id |-> 0, val |-> 0]
\* MaybeUninit::new(src)
MaybeUninitNew(e) == [init |-> TRUE, id |-> e.id, val |-> e.val]
\* uninit_array!(T; $size) / PartialArray::uninit()
UninitArray(n) == [i \in 1 .. n |-> Uninit]

\* Reading a slot as a T (transmute / ptr::read as [T; N]): the slot's bytes.
AsElem(slot) == [id |-> slot.id, val |-> slot.val]

\* ------------------------------------------------------------- producer
\* The producer's answer to its (n+1)-th call of next().
ProducerNext(n) ==
    IF n < Len(items) THEN [kind |-> "Some", elem |-> Elem(n + 1, items[n + 1])]
    ELSE IF tail = "None" THEN [kind |-> "None", elem |-> NoElem]
    ELSE IF tail = "Panic" THEN [kind |-> "Panic", elem |-> NoElem]
    ELSE [kind |-> "Some", elem |-> Elem(n + 1, n % NumVals)]

\* ZipNext pairing the slots from the back (data.iter_mut().rev())
ZipNextRev(n, b, cap) ==
    LET a == ProducerNext(n) IN
    IF a.kind = "Panic" THEN [kind |-> "Panic", src |-> NoElem, dst |-> 0, lost |-> << >>]
    ELSE IF a.kind = "None" THEN [kind |-> "None", src |-> NoElem, dst |-> 0, lost |-> << >>]
    ELSE IF b < cap THEN [kind |-> "Some", src |-> a.elem, dst |-> cap - b, lost |-> << >>]
    ELSE [kind |-> "None", src |-> NoElem, dst |-> 0, lost |-> <<a.elem>>]

\* ZipNext ending one slot early
ZipNextShort(n, b, cap) ==
    LET a == ProducerNext(n) IN
    IF a.kind = "Panic" THEN [kind |-> "Panic", src |-> NoElem, dst |-> 0, lost |-> << >>]
    ELSE IF a.kind = "None" THEN [kind |-> "None", src |-> NoElem, dst |-> 0, lost |-> << >>]
    ELSE IF b + 1 < cap THEN [kind |-> "Some", src |-> a.elem, dst |-> b + 1, lost |-> << >>]
    ELSE [kind |-> "None", src |-> NoElem, dst |-> 0, lost |-> <<a.elem>>]

\* Zip::next of iter.zip(data.iter_mut()): the producer is asked first, the
\* slot iterator second; an element taken when no slot is left is dropped.
ZipNext(n, b, cap) ==
    LET a == ProducerNext(n) IN
    IF a.kind = "Panic" THEN [kind |-> "Panic", src |-> NoElem, dst |-> 0, lost |-> << >>]
    ELSE IF a.kind = "None" THEN [kind |-> "None", src |-> NoElem, dst |-> 0, lost |-> << >>]
    ELSE IF b < cap THEN [kind |-> "Some", src |-> a.elem, dst |-> b + 1, lost |-> << >>]
    ELSE [kind |-> "None", src |-> NoElem, dst |-> 0, lost |-> <<a.elem>>]

\* ------------------------------------------------------------- results
NoResult == [kind |-> "Pending", filled |-> 0, capacity |-> 0]
Ok == [kind |-> "Ok", filled |-> 0, capacity |-> 0]
Unwound == [kind |-> "Panic", filled |-> 0, capacity |-> 0]
\* FillErrorNew with its two fields exchanged
FillErrorNewSwapped(filled, capacity) == [kind |-> "Err", filled |-> capacity, capacity |-> filled]

\* FillError::new(filled, capacity)
FillErrorNew(filled, capacity) == [kind |-> "Err", filled |-> filled, capacity |-> capacity]

\* ------------------------------------------------------------- cleanup
\* DropInPlace destroying from the last element down to the first
RECURSIVE DropInPlaceRev(_, _, _)
DropInPlaceRev(data, i, len) ==
    IF i > len \/ i > Len(data) THEN << >>
    ELSE DropInPlaceRev(data, i + 1, len) \o <<[id |-> data[i].id, by |-> "cleanup"]>>

\* ptr::drop_in_place of data[..len] as [T]: the destructions, in index order.
RECURSIVE DropInPlace(_, _, _)
DropInPlace(data, i, len) ==
    IF i > len \/ i > Len(data) THEN << >>
    ELSE <<[id |-> data[i].id, by |-> "cleanup"]>> \o DropInPlace(data, i + 1, len)

\* the slots drop_in_place of data[..len] treats as elements
TouchedBy(data, len) == {i \in 1 .. Len(data) : i <= len}

\* dropping a finished [T; N]: every element, in index order
RECURSIVE DropArray(_, _)
DropArray(arr, i) ==
    IF i > Len(arr) THEN << >>
    ELSE <<[id |-> arr[i].id, by |-> "caller"]>> \o DropArray(arr, i + 1)

\* DropLost forgetting the unpaired element instead of destroying it
DropLostLeak(lost) == << >>

\* dropping the element Zip::next took and could not pair
DropLost(lost) == [i \in 1 .. Len(lost) |-> [id |-> lost[i].id, by |-> "zip"]]

NoCur == [src |-> NoElem, dst |-> 0]

\* ----------------------------------------------------------------- Init
RECURSIVE SeqsUpTo(_)
SeqsUpTo(n) ==
    IF n = 0 THEN {<< >>}
    ELSE SeqsUpTo(n - 1) \cup [1 .. n -> Vals]

Init ==
    /\ N \in 0 .. MaxN
    /\ items \in SeqsUpTo(MaxLen)
    /\ tail \in Tails
    /\ pc = [p \in Procs |-> "start"]
    /\ asked = [p \in Procs |-> 0]
    /\ taken = [p \in Procs |-> 0]
    /\ cur = [p \in Procs |-> NoCur]
    /\ zipB = [p \in Procs |-> 0]
    /\ pa = [data |-> << >>, filled |-> 0]
    /\ partial = << >>
    /\ guard = [value |-> 0, data |-> 0, live |-> FALSE]
    /\ result = [p \in Procs |-> NoResult]
    /\ container = [p \in Procs |-> << >>]
    /\ drops = [p \in Procs |-> << >>]
    /\ cleanups = [p \in Procs |-> << >>]
    /\ touched = [p \in Procs |-> {}]

\* The caller is one thread: a collect call runs from its start to its return
\* (or unwinding) before the caller does anything else.
Turn(p) == \A q \in Procs \ {p} : pc[q] \in {"start", "returned", "unwound", "discarded"}

\* ------------------------------------------------ the arraycollect! macro
\* PartialArray::new()
new ==
    /\ Turn("m")
    /\ pc["m"] = "start"
    /\ pa' = [data |-> UninitArray(N), filled |-> 0]
    /\ pc' = [pc EXCEPT !["m"] = "next"]
    /\ UNCHANGED <<N, items, tail, asked, taken, cur, zipB, partial, guard,
                   result, container, drops, cleanups, touched>>

\* is_filled taking an empty array for an unfilled one
is_filledNonEmpty(filled, size) == filled = size /\ size > 0

\* is_filled accepting any count up to the capacity
is_filledLe(filled, size) == filled <= size

\* is_filled()
is_filled(filled, size) == filled = size

\* collect: the head of `for (src, dst) in iter.zip(self.data.iter_mut())`
collect_next ==
    /\ Turn("m")
    /\ pc["m"] = "next"
    /\ LET z == ZipNext(asked["m"], zipB["m"], Len(pa.data)) IN
       /\ asked' = [asked EXCEPT !["m"] = @ + 1]
       /\ taken' = [taken EXCEPT !["m"] =
                       IF ProducerNext(asked["m"]).kind = "Some" THEN @ + 1 ELSE @]
       /\ zipB' = [zipB EXCEPT !["m"] = IF z.kind = "Some" THEN @ + 1 ELSE @]
       /\ cur' = [cur EXCEPT !["m"] = [src |-> z.src, dst |-> z.dst]]
       /\ drops' = [drops EXCEPT !["m"] = @ \o DropLost(z.lost)]
       /\ pc' = [pc EXCEPT !["m"] =
                    IF z.kind = "Some" THEN "write"
                    ELSE IF z.kind = "None" THEN "check" ELSE "unwind"]
    /\ UNCHANGED <<N, items, tail, pa, partial, guard, result, container,
                   cleanups, touched>>

\* collect_write storing every element in the first slot
collect_writeFirst ==
    /\ Turn("m")
    /\ pc["m"] = "write"
    /\ pa' = [pa EXCEPT !.data[1] = MaybeUninitNew(cur["m"].src)]
    /\ pc' = [pc EXCEPT !["m"] = "incr"]
    /\ UNCHANGED <<N, items, tail, asked, taken, cur, zipB, partial, guard,
                   result, container, drops, cleanups, touched>>

\* collect: *dst = MaybeUninit::new(src)
collect_write ==
    /\ Turn("m")
    /\ pc["m"] = "write"
    /\ pa' = [pa EXCEPT !.data[cur["m"].dst] = MaybeUninitNew(cur["m"].src)]
    /\ pc' = [pc EXCEPT !["m"] = "incr"]
    /\ UNCHANGED <<N, items, tail, asked, taken, cur, zipB, partial, guard,
                   result, container, drops, cleanups, touched>>

\* collect_incr counting each write twice
collect_incrTwice ==
    /\ Turn("m")
    /\ pc["m"] = "incr"
    /\ pa' = [pa EXCEPT !.filled = @ + 2]
    /\ cur' = [cur EXCEPT !["m"] = NoCur]
    /\ pc' = [pc EXCEPT !["m"] = "next"]
    /\ UNCHANGED <<N, items, tail, asked, taken, zipB, partial, guard,
                   result, container, drops, cleanups, touched>>

\* collect: self.filled += 1
collect_incr ==
    /\ Turn("m")
    /\ pc["m"] = "incr"
    /\ pa' = [pa EXCEPT !.filled = @ + 1]
    /\ cur' = [cur EXCEPT !["m"] = NoCur]
    /\ pc' = [pc EXCEPT !["m"] = "next"]
    /\ UNCHANGED <<N, items, tail, asked, taken, zipB, partial, guard,
                   result, container, drops, cleanups, touched>>

\* collect_check going back to the producer once more when the array is short
collect_checkRetry ==
    /\ Turn("m")
    /\ pc["m"] = "check"
    /\ IF is_filled(pa.filled, N)
       THEN /\ pc' = [pc EXCEPT !["m"] = "into_filled"]
            /\ UNCHANGED result
       ELSE IF asked["m"] <= Len(items) + 1
       THEN /\ pc' = [pc EXCEPT !["m"] = "next"]
            /\ UNCHANGED result
       ELSE /\ pc' = [pc EXCEPT !["m"] = "drop"]
            /\ result' = [result EXCEPT !["m"] = FillErrorNew(pa.filled, N)]
    /\ UNCHANGED <<N, items, tail, asked, taken, cur, zipB, pa, partial, guard,
                   container, drops, cleanups, touched>>

\* collect: if self.is_filled() { Ok(self) } else { Err(FillError::new(filled, $size)) }
collect_check ==
    /\ Turn("m")
    /\ pc["m"] = "check"
    /\ IF is_filled(pa.filled, N)
       THEN /\ pc' = [pc EXCEPT !["m"] = "into_filled"]
            /\ UNCHANGED result
       ELSE /\ pc' = [pc EXCEPT !["m"] = "drop"]
            /\ result' = [result EXCEPT !["m"] = FillErrorNew(pa.filled, N)]
    /\ UNCHANGED <<N, items, tail, asked, taken, cur, zipB, pa, partial, guard,
                   container, drops, cleanups, touched>>

\* DropLen using the capacity instead of the fill counter
DropLenCapacity(p) == Len(p.data)

\* Drop for PartialArray: let len = self.filled
DropLen(p) == p.filled

\* PartialArray_drop destroying nothing (a builder without its Drop impl)
PartialArray_forget ==
    /\ Turn("m")
    /\ pc["m"] \in {"drop", "unwind"}
    /\ result' = [result EXCEPT !["m"] = IF pc["m"] = "unwind" THEN Unwound ELSE @]
    /\ pc' = [pc EXCEPT !["m"] = IF pc["m"] = "unwind" THEN "unwound" ELSE "returned"]
    /\ UNCHANGED <<N, items, tail, asked, taken, cur, zipB, pa, partial, guard,
                   container, drops, cleanups, touched>>

\* Drop for PartialArray, run when collect returns Err or unwinds
PartialArray_drop ==
    /\ Turn("m")
    /\ pc["m"] \in {"drop", "unwind"}
    /\ LET len == DropLen(pa) IN
       /\ drops' = [drops EXCEPT !["m"] = @ \o DropInPlace(pa.data, 1, len)]
       /\ cleanups' = [cleanups EXCEPT !["m"] = Append(@, len)]
       /\ touched' = [touched EXCEPT !["m"] = @ \cup TouchedBy(pa.data, len)]
    /\ result' = [result EXCEPT !["m"] = IF pc["m"] = "unwind" THEN Unwound ELSE @]
    /\ pc' = [pc EXCEPT !["m"] = IF pc["m"] = "unwind" THEN "unwound" ELSE "returned"]
    /\ UNCHANGED <<N, items, tail, asked, taken, cur, zipB, pa, partial, guard,
                   container>>

\* into_filled: self.filled = 0
into_filled ==
    /\ Turn("m")
    /\ pc["m"] = "into_filled"
    /\ pa' = [pa EXCEPT !.filled = 0]
    /\ pc' = [pc EXCEPT !["m"] = "transmute"]
    /\ UNCHANGED <<N, items, tail, asked, taken, cur, zipB, partial, guard,
                   result, container, drops, cleanups, touched>>

\* into_filled: mem::transmute(self), then FilledArray::data()
transmute ==
    /\ Turn("m")
    /\ pc["m"] = "transmute"
    /\ container' = [container EXCEPT !["m"] = [i \in 1 .. Len(pa.data) |-> AsElem(pa.data[i])]]
    /\ result' = [result EXCEPT !["m"] = Ok]
    /\ pc' = [pc EXCEPT !["m"] = "returned"]
    /\ UNCHANGED <<N, items, tail, asked, taken, cur, zipB, pa, partial, guard,
                   drops, cleanups, touched>>

\* the caller lets go of the finished array
discard(p) ==
    /\ Turn(p)
    /\ pc[p] = "returned"
    /\ result[p].kind = "Ok"
    /\ drops' = [drops EXCEPT ![p] = @ \o DropArray(container[p], 1)]
    /\ pc' = [pc EXCEPT ![p] = "discarded"]
    /\ UNCHANGED <<N, items, tail, asked, taken, cur, zipB, pa, partial, guard,
                   result, container, cleanups, touched>>

mNext ==
    \/ new
    \/ collect_next
    \/ collect_write
    \/ collect_incr
    \/ collect_check
    \/ PartialArray_drop
    \/ into_filled
    \/ transmute
    \/ discard("m")

\* ------------------------------------------------- FromIter::from_iter
\* let mut partial = <[T; N] as Array>::PartialArray::uninit()
uninit ==
    /\ Turn("g")
    /\ pc["g"] = "start"
    /\ partial' = UninitArray(N)
    /\ pc' = [pc EXCEPT !["g"] = "guard"]
    /\ UNCHANGED <<N, items, tail, asked, taken, cur, zipB, pa, guard,
                   result, container, drops, cleanups, touched>>

\* let mut guard = ScopeExitGuard { value: partial.as_mut_slice(), data: 0, f }
\* (value is modelled by the length of the slice of partial it borrows)
guard_new ==
    /\ Turn("g")
    /\ pc["g"] = "guard"
    /\ guard' = [value |-> Len(partial), data |-> 0, live |-> TRUE]
    /\ pc' = [pc EXCEPT !["g"] = "next"]
    /\ UNCHANGED <<N, items, tail, asked, taken, cur, zipB, pa, partial,
                   result, container, drops, cleanups, touched>>

\* the head of `for (src, dst) in iter.into_iter().zip(guard.value.iter_mut())`
from_iter_next ==
    /\ Turn("g")
    /\ pc["g"] = "next"
    /\ LET z == ZipNext(asked["g"], zipB["g"], guard.value) IN
       /\ asked' = [asked EXCEPT !["g"] = @ + 1]
       /\ taken' = [taken EXCEPT !["g"] =
                       IF ProducerNext(asked["g"]).kind = "Some" THEN @ + 1 ELSE @]
       /\ zipB' = [zipB EXCEPT !["g"] = IF z.kind = "Some" THEN @ + 1 ELSE @]
       /\ cur' = [cur EXCEPT !["g"] = [src |-> z.src, dst |-> z.dst]]
       /\ drops' = [drops EXCEPT !["g"] = @ \o DropLost(z.lost)]
       /\ pc' = [pc EXCEPT !["g"] =
                    IF z.kind = "Some" THEN "write"
                    ELSE IF z.kind = "None" THEN "check" ELSE "unwind"]
    /\ UNCHANGED <<N, items, tail, pa, partial, guard, result, container,
                   cleanups, touched>>

\* ptr::write(dst, MaybeUninit::new(src))
from_iter_write ==
    /\ Turn("g")
    /\ pc["g"] = "write"
    /\ partial' = [partial EXCEPT ![cur["g"].dst] = MaybeUninitNew(cur["g"].src)]
    /\ pc' = [pc EXCEPT !["g"] = "incr"]
    /\ UNCHANGED <<N, items, tail, asked, taken, cur, zipB, pa, guard,
                   result, container, drops, cleanups, touched>>

\* guard.data += 1
from_iter_incr ==
    /\ Turn("g")
    /\ pc["g"] = "incr"
    /\ guard' = [guard EXCEPT !.data = @ + 1]
    /\ cur' = [cur EXCEPT !["g"] = NoCur]
    /\ pc' = [pc EXCEPT !["g"] = "next"]
    /\ UNCHANGED <<N, items, tail, asked, taken, zipB, pa, partial,
                   result, container, drops, cleanups, touched>>

\* if guard.data == N { ... } else { Err(FillError::new(guard.data, N)) }
from_iter_check ==
    /\ Turn("g")
    /\ pc["g"] = "check"
    /\ IF guard.data = N
       THEN /\ pc' = [pc EXCEPT !["g"] = "disarm"]
            /\ UNCHANGED result
       ELSE /\ pc' = [pc EXCEPT !["g"] = "drop"]
            /\ result' = [result EXCEPT !["g"] = FillErrorNew(guard.data, N)]
    /\ UNCHANGED <<N, items, tail, asked, taken, cur, zipB, pa, partial, guard,
                   container, drops, cleanups, touched>>

\* GuardLen as a closure that captured the counter's value at setup
GuardLenStale(gd) == 0

\* Drop for ScopeExitGuard: (self.f)(&self.data, &mut self.value);
\* the length the closure is called with
GuardLen(gd) == gd.data

\* GuardF as a closure that destroys nothing
GuardFNone(len, value, data) == << >>

\* the closure f: drop_in_place(&mut slice[..len] as *mut [T]);
\* slicing beyond the borrowed slice panics before anything is dropped
GuardF(len, value, data) ==
    IF len <= value THEN DropInPlace(data, 1, len) ELSE << >>

\* ScopeExit running the closure on a forgotten guard too
ScopeExitAlways(gd, data) ==
    [ran |-> <<gd.data>>,
     dropped |-> IF gd.data <= gd.value THEN DropInPlace(data, 1, gd.data) ELSE << >>,
     slots |-> IF gd.data <= gd.value THEN TouchedBy(data, gd.data) ELSE {}]

\* what leaving from_iter's scope does to a guard: nothing once it is forgotten
ScopeExit(gd, data) ==
    IF gd.live
    THEN [ran |-> <<GuardLen(gd)>>,
          dropped |-> GuardF(GuardLen(gd), gd.value, data),
          slots |-> IF GuardLen(gd) <= gd.value THEN TouchedBy(data, GuardLen(gd)) ELSE {}]
    ELSE [ran |-> << >>, dropped |-> << >>, slots |-> {}]

\* the guard leaves scope on the Err return or while unwinding
ScopeExitGuard_drop ==
    /\ Turn("g")
    /\ pc["g"] \in {"drop", "unwind"}
    /\ LET x == ScopeExit(guard, partial) IN
       /\ drops' = [drops EXCEPT !["g"] = @ \o x.dropped]
       /\ cleanups' = [cleanups EXCEPT !["g"] = @ \o x.ran]
       /\ touched' = [touched EXCEPT !["g"] = @ \cup x.slots]
    /\ guard' = [guard EXCEPT !.live = FALSE]
    /\ result' = [result EXCEPT !["g"] = IF pc["g"] = "unwind" THEN Unwound ELSE @]
    /\ pc' = [pc EXCEPT !["g"] = IF pc["g"] = "unwind" THEN "unwound" ELSE "returned"]
    /\ UNCHANGED <<N, items, tail, asked, taken, cur, zipB, pa, partial, container>>

\* guard.value = &mut []; guard.data = 0
Disarm(gd) == [gd EXCEPT !.value = 0, !.data = 0]

guard_disarm ==
    /\ Turn("g")
    /\ pc["g"] = "disarm"
    /\ guard' = Disarm(guard)
    /\ pc' = [pc EXCEPT !["g"] = "forget"]
    /\ UNCHANGED <<N, items, tail, asked, taken, cur, zipB, pa, partial,
                   result, container, drops, cleanups, touched>>

\* Forget leaving the guard live
ForgetNot(gd) == gd

\* mem::forget(guard)
Forget(gd) == [gd EXCEPT !.live = FALSE]

guard_forget ==
    /\ Turn("g")
    /\ pc["g"] = "forget"
    /\ guard' = Forget(guard)
    /\ pc' = [pc EXCEPT !["g"] = "read"]
    /\ UNCHANGED <<N, items, tail, asked, taken, cur, zipB, pa, partial,
                   result, container, drops, cleanups, touched>>

\* let array: [T; N] = ptr::read(&partial as *const [T; N]); Ok(array)
\* (a guard still live here would run as from_iter's locals leave scope)
from_iter_ok ==
    /\ Turn("g")
    /\ pc["g"] = "read"
    /\ container' = [container EXCEPT !["g"] = [i \in 1 .. Len(partial) |-> AsElem(partial[i])]]
    /\ LET x == ScopeExit(guard, partial) IN
       /\ drops' = [drops EXCEPT !["g"] = @ \o x.dropped]
       /\ cleanups' = [cleanups EXCEPT !["g"] = @ \o x.ran]
       /\ touched' = [touched EXCEPT !["g"] = @ \cup x.slots]
    /\ guard' = [guard EXCEPT !.live = FALSE]
    /\ result' = [result EXCEPT !["g"] = Ok]
    /\ pc' = [pc EXCEPT !["g"] = "returned"]
    /\ UNCHANGED <<N, items, tail, asked, taken, cur, zipB, pa, partial>>

gNext ==
    \/ uninit
    \/ guard_new
    \/ from_iter_next
    \/ from_iter_write
    \/ from_iter_incr
    \/ from_iter_check
    \/ ScopeExitGuard_drop
    \/ guard_disarm
    \/ guard_forget
    \/ from_iter_ok
    \/ discard("g")

Next == mNext \/ gNext

Spec == Init /\ [][Next]_vars

\* a call that has started runs to its end; the caller may keep the array
Running(p) == pc[p] \notin {"returned", "unwound", "discarded"}
FairSpec == Spec /\ WF_vars(mNext /\ Running("m")) /\ WF_vars(gNext /\ Running("g"))

\* ------------------------------------------------------------ properties
Data(p) == IF p = "m" THEN pa.data ELSE partial
Counter(p) == IF p = "m" THEN pa.filled ELSE guard.data
InitSlots(data) == {i \in 1 .. Len(data) : data[i].init}
Returned(p) == pc[p] \in {"returned", "discarded"}
Ended(p) == pc[p] \in {"returned", "unwound", "discarded"}
\* the destructions of elements 1 .. k, once each, in index order, by `by`
DropsOf(k, by) == [i \in 1 .. k |-> [id |-> i, by |-> by]]
DropCount(p, id) == Cardinality({j \in 1 .. Len(drops[p]) : drops[p][j].id = id})
\* the producer yields exactly k elements and then reports exhaustion
Yields(k) == Len(items) = k /\ tail = "None"

\* C1: a producer that yields exactly N elements a_1..a_N makes both builders
\* return Ok with an array of exactly N elements whose i-th element is a_i;
\* the call neither fails nor unwinds.
C1_ExactFill ==
    \A p \in Procs :
        Yields(N) =>
            /\ pc[p] \notin {"drop", "unwind", "unwound"}
            /\ result[p].kind \in {"Pending", "Ok"}
            /\ Returned(p) =>
                  /\ result[p] = Ok
                  /\ container[p] = [i \in 1 .. N |-> Elem(i, items[i])]

C1_Witness ==
    /\ Yields(N) /\ N >= 2 /\ items[1] # items[2]
    /\ \A p \in Procs : pc[p] = "returned" /\ result[p] = Ok /\ Len(container[p]) = N

\* C2: for N > 0 and 0 <= K < N, a producer that yields exactly K elements and
\* then reports exhaustion makes both builders return FillError{filled: K,
\* capacity: N}, for K = 0 as for K > 0.
C2_Undersupply ==
    \A p \in Procs :
        (N > 0 /\ Len(items) < N /\ tail = "None") =>
            /\ pc[p] \notin {"into_filled", "transmute", "disarm", "forget", "read",
                             "unwind", "unwound", "discarded"}
            /\ result[p].kind \in {"Pending", "Err"}
            /\ Returned(p) =>
                  /\ result[p].kind = "Err"
                  /\ result[p].filled = Len(items)
                  /\ result[p].capacity = N

C2_Witness ==
    /\ tail = "None" /\ Len(items) >= 1 /\ Len(items) < N
    /\ \A p \in Procs : pc[p] = "returned" /\ result[p].kind = "Err"
                        /\ result[p].filled = Len(items)

\* C3: the producer never hands over more than N elements during one collect
\* call (it is never asked for an (N+1)-th element).
C3_NeverAsksBeyondN ==
    \A p \in Procs : taken[p] <= N

\* C4: with N = 0 the call never returns a FillError; whatever the producer
\* holds (nothing, some elements, endlessly many) it returns Ok with an empty
\* array, and it unwinds only if the producer panics on its first call.
C4_ZeroCapacity ==
    \A p \in Procs :
        N = 0 =>
            /\ result[p].kind # "Err"
            /\ pc[p] # "drop"
            /\ Returned(p) => result[p] = Ok /\ container[p] = << >>
            /\ (items # << >> \/ tail # "Panic") => pc[p] \notin {"unwind", "unwound"}

C4_Witness ==
    /\ N = 0 /\ tail = "More"
    /\ \A p \in Procs : pc[p] = "returned" /\ result[p] = Ok /\ container[p] = << >>

\* C5: when a call has returned FillError{filled: K, ..}, the cleanup has run
\* once, with length K, and has destroyed exactly the elements of slots
\* 1..K, each once; nothing else was destroyed, no element handed over is
\* left alive, no slot beyond K was treated as an element.
C5_UndersupplyCleanup ==
    \A p \in Procs :
        (pc[p] = "returned" /\ result[p].kind = "Err") =>
            LET K == result[p].filled IN
            /\ K < N
            /\ InitSlots(Data(p)) = 1 .. K
            /\ \A i \in 1 .. K : Data(p)[i].id = i
            /\ drops[p] = DropsOf(K, "cleanup")
            /\ taken[p] = K
            /\ touched[p] = 1 .. K
            /\ cleanups[p] = <<K>>

C5_Witness ==
    \A p \in Procs :
        /\ pc[p] = "returned" /\ result[p].kind = "Err"
        /\ result[p].filled >= 2 /\ Len(drops[p]) = result[p].filled

\* C6: on the success path the builder destroys nothing: before the storage
\* is reinterpreted as the finished array the fill counter is 0 (and the
\* guard forgotten), no cleanup runs, no element is destroyed while the
\* caller holds the array, and discarding the array destroys each of its N
\* elements exactly once.
C6_SuccessHandoff ==
    /\ pc["m"] = "transmute" => pa.filled = 0
    /\ pc["g"] = "read" => guard.data = 0 /\ ~guard.live
    /\ \A p \in Procs :
          /\ (pc[p] = "returned" /\ result[p].kind = "Ok") =>
                /\ cleanups[p] = << >>
                /\ touched[p] = {}
                /\ Len(container[p]) = N
                /\ \A i \in 1 .. N : container[p][i].id = i /\ DropCount(p, i) = 0
          /\ pc[p] = "discarded" =>
                /\ cleanups[p] = << >>
                /\ \A i \in 1 .. N : DropCount(p, i) = 1
                /\ \A j \in 1 .. Len(drops[p]) :
                      drops[p][j].id <= N => drops[p][j].by = "caller"

C6_Witness ==
    /\ N >= 2
    /\ \A p \in Procs : pc[p] = "discarded" /\ \A i \in 1 .. N : DropCount(p, i) = 1

\* C7: when the producer panics on being asked for the next element after
\* k elements were written (0 <= k <= N), the unwinding runs the cleanup
\* once, which destroys exactly those k elements, once each, and treats no
\* uninitialized slot as an element; for both builders.
C7_PanicCleanup ==
    \A p \in Procs :
        pc[p] = "unwound" =>
            LET k == Cardinality(InitSlots(Data(p))) IN
            /\ result[p] = Unwound
            /\ k <= N
            /\ k = Len(items)
            /\ InitSlots(Data(p)) = 1 .. k
            /\ \A i \in 1 .. k : Data(p)[i].id = i
            /\ drops[p] = DropsOf(k, "cleanup")
            /\ touched[p] = 1 .. k
            /\ touched[p] \subseteq InitSlots(Data(p))
            /\ cleanups[p] = <<k>>

C7_Witness ==
    /\ tail = "Panic" /\ Len(items) >= 1 /\ Len(items) < N
    /\ \A p \in Procs : pc[p] = "unwound" /\ Len(drops[p]) = Len(items)

C7_WitnessFull ==
    /\ tail = "Panic" /\ Len(items) = N /\ N >= 1
    /\ \A p \in Procs : pc[p] = "unwound" /\ Len(drops[p]) = N

\* C8: a call that returns without unwinding returns Ok exactly when N
\* slots were written and an Err otherwise; every FillError has capacity = N
\* and filled < capacity and comes with no array; every array handed to the
\* caller holds N written elements.
C8_Outcome ==
    \A p \in Procs :
        /\ result[p].kind = "Err" =>
              /\ result[p].capacity = N
              /\ result[p].filled < result[p].capacity
              /\ result[p].filled = Cardinality(InitSlots(Data(p)))
              /\ container[p] = << >>
        /\ Returned(p) =>
              /\ result[p].kind \in {"Ok", "Err"}
              /\ result[p].kind = "Ok" <=> Cardinality(InitSlots(Data(p))) = N
        /\ result[p].kind = "Ok" =>
              /\ Len(container[p]) = N
              /\ \A i \in 1 .. N : Data(p)[i].init /\ container[p][i] = AsElem(Data(p)[i])
        /\ result[p].kind # "Ok" => container[p] = << >>

C8_Witness ==
    /\ N >= 2
    /\ pc["m"] = "returned" /\ result["m"].kind = "Err" /\ result["m"].filled = N - 1
    /\ pc["g"] = "returned" /\ result["g"].kind = "Err"

\* the builder's lifecycle state, read off its position and fill counter
Phase(p) ==
    IF pc[p] \in {"start", "guard", "next", "write", "incr"}
    THEN (IF Counter(p) = 0 THEN "Empty"
          ELSE IF Counter(p) < N THEN "Filling" ELSE "Full")
    ELSE IF pc[p] = "check" THEN (IF Counter(p) = N THEN "Full" ELSE "Short")
    ELSE IF pc[p] \in {"into_filled", "transmute", "disarm", "forget", "read"} THEN "Full"
    ELSE IF pc[p] = "drop" THEN "Short"
    ELSE IF pc[p] = "unwind" THEN "Unwinding"
    ELSE IF pc[p] = "unwound" THEN "Unwound"
    ELSE IF result[p].kind = "Ok" THEN "Finished" ELSE "Disposed"

Edges ==
    {<<"Empty", "Filling">>, <<"Empty", "Full">>, <<"Empty", "Short">>,
     <<"Empty", "Unwinding">>, <<"Filling", "Full">>, <<"Filling", "Short">>,
     <<"Filling", "Unwinding">>, <<"Full", "Finished">>, <<"Full", "Unwinding">>,
     <<"Short", "Disposed">>, <<"Unwinding", "Unwound">>}

\* C9: the builder moves Empty -> Filling -> Full -> Finished or
\* Empty -> Filling -> Short -> Disposed (or leaves by unwinding); Finished,
\* Disposed and the unwound exit are terminal and every call reaches one of
\* them; the cleanup finalizer never runs on the way to or after Finished
\* and has run exactly once at every other exit.
C9_Lifecycle ==
    /\ [][\A p \in Procs :
             /\ Phase(p)' # Phase(p) => <<Phase(p), Phase(p)'>> \in Edges
             /\ Phase(p) \in {"Finished", "Disposed", "Unwound"} =>
                   cleanups'[p] = cleanups[p] /\ result'[p] = result[p]]_vars
    /\ [](\A p \in Procs :
             /\ Len(cleanups[p]) <= 1
             /\ Phase(p) \in {"Empty", "Filling", "Full", "Short", "Unwinding", "Finished"} =>
                   cleanups[p] = << >>
             /\ Phase(p) \in {"Disposed", "Unwound"} => Len(cleanups[p]) = 1
             /\ Phase(p) = "Finished" <=> result[p].kind = "Ok"
             /\ Phase(p) = "Disposed" <=> (result[p].kind = "Err" /\ pc[p] = "returned"))
    /\ \A p \in Procs : <>(Phase(p) \in {"Finished", "Disposed", "Unwound"})

C9_Witness ==
    /\ N >= 2
    /\ \A p \in Procs : Phase(p) = "Disposed" /\ Len(cleanups[p]) = 1 /\ Counter(p) >= 1

C9_WitnessFinished ==
    /\ N >= 2
    /\ \A p \in Procs : Phase(p) = "Finished" /\ pc[p] = "discarded"

\* C10: whenever the cleanup has run, the length it used is the fill
\* counter as it stood at the discard, which is the number of slot writes
\* completed, not the 0 the builder or guard was set up with.
C10_LiveCounter ==
    \A p \in Procs :
        cleanups[p] # << >> =>
            /\ cleanups[p] = <<Counter(p)>>
            /\ cleanups[p] = <<Cardinality(InitSlots(Data(p)))>>
            /\ cleanups[p] = <<zipB[p]>>

C10_Witness ==
    /\ cleanups["g"] # << >> /\ cleanups["g"][1] >= 2
    /\ cleanups["m"] # << >> /\ cleanups["m"][1] >= 2

\* C11: wherever the producer is asked for an element, the completion check
\* is made or the cleanup starts, 0 <= filled <= N, slots 1..filled hold the
\* first `filled` elements produced, in production order, and the slots
\* after them are uninitialized.
C11_PrefixInvariant ==
    \A p \in Procs :
        pc[p] \in {"next", "check", "drop", "unwind"} =>
            /\ Len(Data(p)) = N
            /\ 0 <= Counter(p) /\ Counter(p) <= N
            /\ \A i \in 1 .. N :
                  IF i <= Counter(p)
                  THEN /\ Data(p)[i].init
                       /\ Data(p)[i].id = i
                       /\ Data(p)[i].val = ProducerNext(i - 1).elem.val
                  ELSE ~Data(p)[i].init

C11_Witness ==
    /\ N >= 3
    /\ pc["g"] = "next" /\ Counter("g") = 2
    /\ pc["m"] = "unwound" /\ Counter("m") = 2

\* the number of initialized slots counted contiguously from the first
RECURSIVE ContigInit(_, _)
ContigInit(data, i) ==
    IF i > Len(data) \/ ~data[i].init THEN i - 1 ELSE ContigInit(data, i + 1)

\* C12: an insertion writes the element into the slot whose index is the
\* current fill counter and only then increments the counter, by exactly
\* one; in every state, also between the write and the increment, the
\* counter is at most the number of initialized slots counted contiguously
\* from the first.
C12_WriteThenIncrement ==
    /\ [](\A p \in Procs :
             /\ Counter(p) <= ContigInit(Data(p), 1)
             /\ pc[p] = "write" =>
                   /\ cur[p].dst = Counter(p) + 1
                   /\ ~Data(p)[cur[p].dst].init
             /\ pc[p] = "incr" =>
                   /\ cur[p].dst = Counter(p) + 1
                   /\ Data(p)[cur[p].dst] = MaybeUninitNew(cur[p].src)
                   /\ ContigInit(Data(p), 1) = Counter(p) + 1)
    /\ [][\A p \in Procs :
             /\ Counter(p)' > Counter(p) =>
                   /\ pc[p] = "incr"
                   /\ Counter(p)' = Counter(p) + 1
                   /\ Data(p)' = Data(p)
             /\ Data(p)' # Data(p) =>
                   /\ pc[p] \in {"start", "write"}
                   /\ Counter(p)' = Counter(p)]_vars

C12_Witness ==
    /\ \A p \in Procs : Counter(p) >= 1
    /\ pc["g"] = "incr" /\ ContigInit(Data("g"), 1) = Counter("g") + 1

\* the smaller of two numbers
Min(a, b) == IF a < b THEN a ELSE b

\* C13: a run of the cleanup finalizer destroys the elements of slots
\* 1..filled in forward index order, first slot first, treats no slot after
\* them as an element, and leaves the slots and the fill counter as they
\* were.
C13_CleanupFrame ==
    [][\A p \in Procs :
          cleanups'[p] # cleanups[p] =>
              LET k == Counter(p) IN
              /\ cleanups'[p] = Append(cleanups[p], k)
              /\ Len(drops'[p]) = Len(drops[p]) + k
              /\ \A i \in 1 .. k :
                    drops'[p][Len(drops[p]) + i] = [id |-> Data(p)[i].id, by |-> "cleanup"]
              /\ \A j \in 1 .. Len(drops[p]) : drops'[p][j] = drops[p][j]
              /\ touched'[p] = 1 .. k
              /\ \A i \in touched'[p] : Data(p)[i].init
              /\ Counter(p)' = k
              /\ Data(p)' = Data(p)]_vars

C13_Witness ==
    /\ N >= 3
    /\ \A p \in Procs : cleanups[p] = <<2>> /\ touched[p] = {1, 2} /\ Len(drops[p]) = 2

\* C14: the fill loop always ends: every call reaches its return or its
\* unwinding; a producer that never reports exhaustion makes the loop stop
\* after exactly N slot writes and the call return Ok; a finite producer
\* makes it stop after min(K, N) writes, at the exhaustion report or once
\* the N slots are written.
C14_Termination ==
    /\ \A p \in Procs : <>(pc[p] \in {"returned", "unwound", "discarded"})
    /\ [](\A p \in Procs :
             /\ zipB[p] <= N
             /\ asked[p] <= N + 1
             /\ pc[p] \in {"check", "returned", "discarded", "into_filled", "transmute",
                           "disarm", "forget", "read", "drop"} =>
                   /\ tail = "More" =>
                         /\ zipB[p] = N
                         /\ Cardinality(InitSlots(Data(p))) = N
                         /\ pc[p] # "drop"
                         /\ result[p].kind \in {"Pending", "Ok"}
                   /\ tail # "More" =>
                         /\ zipB[p] = Min(Len(items), N)
                         /\ Cardinality(InitSlots(Data(p))) = Min(Len(items), N)
                         /\ asked[p] = Min(Len(items), N) + 1
             /\ (tail = "More" /\ pc[p] \in {"returned", "discarded"}) => result[p].kind = "Ok")

C14_Witness ==
    /\ tail = "More" /\ N >= 2 /\ items = << >>
    /\ \A p \in Procs : pc[p] = "returned" /\ result[p].kind = "Ok" /\ zipB[p] = N

\* the producer has reported that it has no more elements
Exhausted(p) == tail = "None" /\ asked[p] > Len(items)

\* C15: once the producer has reported exhaustion the builder never asks it
\* again, and the outcome is decided from the fill counter as it stood at
\* that report: Ok if N slots were written by then, else Err with that count.
C15_SinglePass ==
    /\ [][\A p \in Procs : Exhausted(p) => asked'[p] = asked[p] /\ zipB'[p] = zipB[p]]_vars
    /\ [](\A p \in Procs :
             Exhausted(p) =>
                 /\ asked[p] = Len(items) + 1
                 /\ zipB[p] = Len(items)
                 /\ pc[p] \notin {"next", "write", "incr", "unwind", "unwound"}
                 /\ result[p].kind = "Ok" => zipB[p] = N
                 /\ result[p].kind = "Err" =>
                       /\ zipB[p] < N
                       /\ result[p].filled = zipB[p])

C15_Witness ==
    /\ N >= 2
    /\ \A p \in Procs : Exhausted(p) /\ pc[p] = "returned" /\ result[p].kind = "Err"
                        /\ result[p].filled >= 1

\* the elements the finished array of builder p owns
Owned(p) == {container[p][i].id : i \in 1 .. Len(container[p])}
\* the elements held in the slots of builder p
InSlots(p) == {Data(p)[i].id : i \in InitSlots(Data(p))}

\* C16: when a call has returned or unwound, every element the producer
\* handed over is either owned by the returned array and not destroyed, or
\* destroyed exactly once; an element taken after the N slots were full is in
\* no slot, is not counted in filled, and is destroyed exactly once.
C16_Conservation ==
    \A p \in Procs :
        /\ pc[p] \in {"returned", "unwound"} =>
              \A e \in 1 .. taken[p] :
                  IF e \in Owned(p) THEN DropCount(p, e) = 0 ELSE DropCount(p, e) = 1
        /\ pc[p] = "discarded" => \A e \in 1 .. taken[p] : DropCount(p, e) = 1
        /\ \A j \in 1 .. Len(drops[p]) : drops[p][j].id \in 1 .. taken[p]
        /\ taken[p] > N =>
              /\ taken[p] = N + 1
              /\ (N + 1) \notin InSlots(p)
              /\ Cardinality(InitSlots(Data(p))) = N
              /\ Counter(p) <= N
              /\ result[p].kind # "Err"
              /\ DropCount(p, N + 1) = 1

C16_Witness ==
    /\ N >= 1
    /\ \A p \in Procs : taken[p] = N + 1 /\ pc[p] = "returned" /\ DropCount(p, N + 1) = 1
                        /\ Owned(p) = 1 .. N

\* the destructions builder p made itself (not the caller's discard)
RECURSIVE OwnDrops(_, _)
OwnDrops(p, j) ==
    IF j > Len(drops[p]) THEN << >>
    ELSE (IF drops[p][j].by = "caller" THEN << >> ELSE <<drops[p][j]>>) \o OwnDrops(p, j + 1)

\* C17: for the same capacity and the same producer behaviour, once both
\* builders' calls have ended they have made the same producer requests,
\* given the same outcome (the same array or the same FillError counts, or
\* both unwound) and destroyed the same elements.
C17_VariantEquivalence ==
    (\A p \in Procs : pc[p] \in {"returned", "unwound", "discarded"}) =>
        /\ asked["m"] = asked["g"]
        /\ taken["m"] = taken["g"]
        /\ result["m"] = result["g"]
        /\ container["m"] = container["g"]
        /\ OwnDrops("m", 1) = OwnDrops("g", 1)
        /\ cleanups["m"] = cleanups["g"]
        /\ touched["m"] = touched["g"]
        /\ pc["m"] = pc["g"] => drops["m"] = drops["g"]

C17_Witness ==
    /\ N >= 3
    /\ \A p \in Procs : pc[p] = "returned" /\ result[p].kind = "Err" /\ Len(drops[p]) = 2

C17_WitnessOk ==
    /\ N >= 2 /\ tail = "Panic"
    /\ \A p \in Procs : pc[p] = "discarded" /\ taken[p] = N + 1

====
